---------------------------- MODULE Spec2Model ----------------------------
(***************************************************************************)
(* Model of the forecast pipeline of weather_data.py:                      *)
(*   WeatherForecast.data_to_json -> WeatherConditons.modify_condition     *)
(*   (scrape_data, fuzzy matching, emoji_con / missing_codes)              *)
(*   -> WeatherIcons.modify_icons (parse_icon_url, b64encode, dump_json).  *)
(*                                                                         *)
(* Python str and bytes values are sequences: a str is a sequence of       *)
(* one-character strings, a bytes value a sequence of numbers 0..255.      *)
(* A Python dict is a sequence of <<key, value>> pairs with distinct keys, *)
(* in insertion order.                                                     *)
(***************************************************************************)
EXTENDS Integers, Sequences, FiniteSets, TLC

\* ------------------------------------------------------------------ bounds
\* Forecast days in the dataset (the code keeps at most 15, line 282).
MaxDays == 2
\* Hourly records per day (the code reads 24 per day, lines 286-289).
HoursPerDay == 1
\* Rows of the scraped conditions table.
MaxRows == 3
\* Forecast days of a dataset when main runs the pipeline twice.
MaxRunDays == 1

\* ------------------------------------------------------- characters, str
\* Code points of the characters the model's texts use.
Ord(c) ==
    CASE c = " " -> 32  [] c = "." -> 46
      [] c = "0" -> 48  [] c = "1" -> 49  [] c = "2" -> 50  [] c = "3" -> 51
      [] c = "D" -> 68  [] c = "F" -> 70  [] c = "G" -> 71  [] c = "H" -> 72
      [] c = "O" -> 79  [] c = "R" -> 82  [] c = "T" -> 84  [] c = "Y" -> 89
      [] c = "d" -> 100 [] c = "f" -> 102 [] c = "g" -> 103 [] c = "h" -> 104
      [] c = "n" -> 110 [] c = "o" -> 111 [] c = "r" -> 114 [] c = "t" -> 116
      [] c = "y" -> 121

Chars == {" ", ".", "0", "1", "2", "3", "D", "F", "G", "H", "O", "R", "T", "Y",
          "d", "f", "g", "h", "n", "o", "r", "t", "y"}

Chr(n) == CHOOSE c \in Chars : Ord(c) = n

IsUpper(c) == Ord(c) \in 65..90
IsLower(c) == Ord(c) \in 97..122
IsAlpha(c) == IsUpper(c) \/ IsLower(c)

LowerChar(c) == IF IsUpper(c) THEN Chr(Ord(c) + 32) ELSE c
UpperChar(c) == IF IsLower(c) THEN Chr(Ord(c) - 32) ELSE c

\* str.lower()
Lower(s) == [i \in 1..Len(s) |-> LowerChar(s[i])]

\* str.title(): a cased character that follows an uncased one (or starts the
\* text) is upper-cased, every other cased character lower-cased.
Title(s) ==
    [i \in 1..Len(s) |->
        IF i = 1 \/ ~IsAlpha(s[i - 1]) THEN UpperChar(s[i]) ELSE LowerChar(s[i])]

\* str.strip(): leading and trailing whitespace removed.
RECURSIVE LStrip(_)
LStrip(s) == IF s # <<>> /\ Head(s) = " " THEN LStrip(Tail(s)) ELSE s
RECURSIVE RStrip(_)
RStrip(s) ==
    IF s # <<>> /\ s[Len(s)] = " " THEN RStrip(SubSeq(s, 1, Len(s) - 1)) ELSE s
Strip(s) == RStrip(LStrip(s))

\* s[:n]
Take(s, n) == SubSeq(s, 1, IF Len(s) < n THEN Len(s) ELSE n)

\* str.replace(old, new) for one-character old and new.
Replace(s, old, new) == [i \in 1..Len(s) |-> IF s[i] = old THEN new ELSE s[i]]

\* Python's < on str: lexicographic by code point.
RECURSIVE StrLess(_, _)
StrLess(a, b) ==
    IF b = <<>> THEN FALSE
    ELSE IF a = <<>> THEN TRUE
    ELSE IF Ord(Head(a)) # Ord(Head(b)) THEN Ord(Head(a)) < Ord(Head(b))
    ELSE StrLess(Tail(a), Tail(b))

\* ------------------------------------------------------------------ dict
DictKeys(d) == {d[i][1] : i \in 1..Len(d)}
DictValues(d) == {d[i][2] : i \in 1..Len(d)}
DictHas(d, k) == k \in DictKeys(d)
\* d[k] for a key of d
DictGet(d, k) == d[CHOOSE i \in 1..Len(d) : d[i][1] = k][2]
\* d[k] = v: a present key keeps its position, a new key is appended.
DictSet(d, k, v) ==
    IF DictHas(d, k)
    THEN [i \in 1..Len(d) |-> IF d[i][1] = k THEN <<k, v>> ELSE d[i]]
    ELSE Append(d, <<k, v>>)
\* dict(pairs) / OrderedDict(pairs): later pairs overwrite earlier ones.
RECURSIVE DictFromPairs(_, _)
DictFromPairs(d, pairs) ==
    IF pairs = <<>> THEN d
    ELSE DictFromPairs(DictSet(d, Head(pairs)[1], Head(pairs)[2]), Tail(pairs))

\* Python's < on (str, str) tuples.
ItemLess(x, y) == StrLess(x[1], y[1]) \/ (x[1] = y[1] /\ StrLess(x[2], y[2]))
\* sorted(d.items())
SortedItems(d) == SortSeq(d, ItemLess)


\* ------------------------------------------------- rapidfuzz (line 434)
Max2(a, b) == IF a >= b THEN a ELSE b

\* Length of a longest common subsequence of a[1..i] and b[1..j].
RECURSIVE LcsLen(_, _, _, _)
LcsLen(a, b, i, j) ==
    IF i = 0 \/ j = 0 THEN 0
    ELSE IF a[i] = b[j] THEN 1 + LcsLen(a, b, i - 1, j - 1)
    ELSE Max2(LcsLen(a, b, i - 1, j), LcsLen(a, b, i, j - 1))

\* fuzz.ratio(a, b): the normalised Indel similarity 100 * 2*LCS / (|a|+|b|),
\* 100 for two empty texts. Kept as the fraction <<numerator, denominator>>
\* of 100, so that scores compare exactly.
Ratio(a, b) ==
    IF Len(a) + Len(b) = 0 THEN <<1, 1>>
    ELSE <<2 * LcsLen(a, b, Len(a), Len(b)), Len(a) + Len(b)>>

ScoreGreater(x, y) == x[1] * y[2] > y[1] * x[2]
ScoreEqual(x, y) == x[1] * y[2] = y[1] * x[2]
ScoreGeq(x, y) == x[1] * y[2] >= y[1] * x[2]
WorstScore == <<0, 1>>
OptimalScore == <<1, 1>>

NoMatch == [found |-> FALSE, choice |-> <<>>, score |-> WorstScore, index |-> 0]

\* The loop of process.extractOne: a candidate replaces the result when its
\* score reaches the cutoff (the worst score at first, then the best score
\* so far) and is strictly greater than the result's; the loop stops early
\* on the optimal score.
RECURSIVE ExtractLoop(_, _, _, _)
ExtractLoop(query, choices, i, result) ==
    IF i > Len(choices) THEN result
    ELSE LET score == Ratio(query, choices[i])
             take == ScoreGeq(score, result.score)
                     /\ (~result.found \/ ScoreGreater(score, result.score))
             next == IF take
                     THEN [found |-> TRUE, choice |-> choices[i],
                           score |-> score, index |-> i]
                     ELSE result
         IN IF ScoreEqual(score, OptimalScore) THEN next
            ELSE ExtractLoop(query, choices, i + 1, next)

\* process.extractOne(query, choices, scorer=fuzz.ratio): None for no choices.
ExtractOne(query, choices) == ExtractLoop(query, choices, 1, NoMatch)

\* --------------------------------------------------- base64 (line 5)
B64Alphabet ==
    <<"A","B","C","D","E","F","G","H","I","J","K","L","M","N","O","P",
      "Q","R","S","T","U","V","W","X","Y","Z","a","b","c","d","e","f",
      "g","h","i","j","k","l","m","n","o","p","q","r","s","t","u","v",
      "w","x","y","z","0","1","2","3","4","5","6","7","8","9","+","/">>
B64Char(n) == B64Alphabet[n + 1]

\* b64encode(bytes).decode('utf-8'): three bytes give four characters of six
\* bits each; a last group of one or two bytes is padded with "=".
RECURSIVE B64Encode(_)
B64Encode(bytes) ==
    IF bytes = <<>> THEN <<>>
    ELSE IF Len(bytes) = 1 THEN
        <<B64Char(bytes[1] \div 4), B64Char((bytes[1] % 4) * 16), "=", "=">>
    ELSE IF Len(bytes) = 2 THEN
        <<B64Char(bytes[1] \div 4),
          B64Char((bytes[1] % 4) * 16 + bytes[2] \div 16),
          B64Char((bytes[2] % 16) * 4), "=">>
    ELSE
        <<B64Char(bytes[1] \div 4),
          B64Char((bytes[1] % 4) * 16 + bytes[2] \div 16),
          B64Char((bytes[2] % 16) * 4 + bytes[3] \div 64),
          B64Char(bytes[3] % 64)>>
        \o B64Encode(SubSeq(bytes, 4, Len(bytes)))


\* ------------------------------------------------------ the environment
\* Condition texts the forecast API reports for an hour.
RawConditions == { <<"F","o","g">>, <<"d","r","y">> }

\* Cell texts of the conditions table: first cell (icon) and last cell
\* (description) of a row.
CodeCells == { <<" ","0","1","d",".">>, <<"0","2","d",".">>, <<"0","3","d">> }
DescCells == { <<" ","f","o","g">>, <<"H","O","T">> }
\* A row is its sequence of <td> cells; the header row has fewer than three.
FullRows == { <<c, <<>>, d>> : c \in CodeCells, d \in DescCells }
HeaderRow == << <<"0","1","d">>, <<"f","o","g">> >>
\* The tables of at most n rows of three cells, no icon cell twice (the
\* taxonomy's icon codes are unique).
RECURSIVE Tables(_)
Tables(n) ==
    IF n = 0 THEN {<<>>}
    ELSE LET T == Tables(n - 1)
         IN T \cup UNION { { Append(t, r) :
                               r \in { x \in FullRows :
                                         \A i \in 1..Len(t) : t[i][1] # x[1] } }
                             : t \in T }
\* A page's table: the rows, with or without a header row before them.
Pages == Tables(MaxRows) \cup { <<HeaderRow>> \o t : t \in Tables(MaxRows) }

\* The bytes the icon server answers for a code: a two-byte signature and
\* the code's characters.
ServerContent(code) == <<137, 80>> \o [i \in 1..Len(code) |-> Ord(code[i])]

\* The hourly item data_to_json builds (lines 314-321), without the fields
\* the pipeline never reads again (hour, temperature, humidity).
EmojiStr(s) == [type |-> "str", value |-> s]
EmojiDict(r) == [type |-> "dict", value |-> r]
HourlyItem(c) == [conditions |-> c, emoji |-> EmojiStr(<<>>)]
Item(hours) == [day |-> [hourly_data |-> hours]]
Datasets ==
    UNION { [1..n -> { Item(h) :
                h \in [1..HoursPerDay -> {HourlyItem(c) : c \in RawConditions}] }]
            : n \in 0..MaxDays }

\* A JSON document on disk.
Absent == [state |-> "absent", value |-> <<>>]
Corrupt == [state |-> "corrupt", value |-> <<>>]
JsonDump(v) == [state |-> "json", value |-> v]
JsonLoads(f) == f.value

\* How one dump_json call can end: the document written, open() refused
\* (the document as it was), or the write broken off (a truncated document).
WriteOutcomes == {"ok", "open_failed", "write_failed"}

\* dump_json (lines 203-215): the document after the call.
DumpJson(file, v, outcome) ==
    CASE outcome = "ok" -> JsonDump(v)
      [] outcome = "open_failed" -> file
      [] outcome = "write_failed" -> Corrupt

\* scrape_data, lines 398-406: one ConditionInfo per row of three or more
\* cells, icon_code = first cell stripped and cut to 3, description = last
\* cell stripped and title-cased.
RECURSIVE ScrapeRows(_)
ScrapeRows(rows) ==
    IF rows = <<>> THEN <<>>
    ELSE LET cells == Head(rows)
         IN (IF Len(cells) >= 3
             THEN << [icon_code |-> Take(Strip(cells[1]), 3),
                      description |-> Title(Strip(cells[Len(cells)]))] >>
             ELSE <<>>) \o ScrapeRows(Tail(rows))

\* line 428
Unpacked(wc) == [i \in 1..Len(wc) |-> <<wc[i].icon_code, wc[i].description>>]
\* line 434, the candidates
Descriptions(wc) == [i \in 1..Len(wc) |-> wc[i].description]

\* line 437: filter(lambda i: i[0] if i[1]==best_match else '', unpacked):
\* the entries with that description and a non-empty code, in order.
MatchingEntries(unpacked, best_match) ==
    SelectSeq(unpacked, LAMBDA i : i[2] = best_match /\ i[1] # <<>>)

\* line 439: {desc: icon for icon, desc in unpacked
\*            if icon not in emoji_con.values()}
RECURSIVE MissingCodes(_, _, _)
MissingCodes(unpacked, ec, acc) ==
    IF unpacked = <<>> THEN acc
    ELSE LET icon == Head(unpacked)[1]
             desc == Head(unpacked)[2]
         IN MissingCodes(Tail(unpacked), ec,
                IF icon \notin DictValues(ec) THEN DictSet(acc, desc, icon)
                ELSE acc)

\* sorted(items, key=lambda i: i[1]) of a set of (description, code) pairs;
\* pairs of equal code keep the set's iteration order, which is arbitrary.
RECURSIVE SortedByCode(_)
SortedByCode(S) ==
    IF S = {} THEN <<>>
    ELSE LET m == CHOOSE x \in S : \A y \in S : ~StrLess(y[2], x[2])
         IN <<m>> \o SortedByCode(S \ {m})

\* line 468
AllCodes(ec, mc) ==
    DictFromPairs(<<>>,
        SortedByCode({ec[i] : i \in 1..Len(ec)} \cup {mc[i] : i \in 1..Len(mc)}))

\* line 488: the night variant of a code
NightCode(code) == Replace(code, "d", "n")


\* ------------------------------------------------------------ the state
VARIABLES
    pc,                 \* where the run stands
    raised,             \* the exception that ended the run, "" for none
    pending,            \* SystemExit in flight while the finally clause runs
    data,               \* clean_data of data_to_json / data of modify_condition
    data0,              \* clean_data as data_to_json built it (lines 297-324)
    cursor,             \* <<day, hour>> of the loops of lines 430-432
    weather_conditions, \* line 427
    emoji_con,          \* global, line 425
    missing_codes,      \* global, line 425
    forecast_file,      \* data_files/Forecast_data.json
    conditions_file,    \* data_files/weather_conditions.json
    icon_files,         \* icons/<code>_day.png, icons/<code>_night.png
    idata,              \* data of modify_icons (line 465)
    all_codes,          \* line 468
    full_modifications, \* line 483
    k,                  \* position of the loops of lines 470 and 484
    log,                \* the calls made so far in this run
    run                 \* 1 for main's first get_forecast, 2 for its retry

vars == <<pc, raised, pending, data, data0, cursor, weather_conditions,
          emoji_con, missing_codes, forecast_file, conditions_file,
          icon_files, idata, all_codes, full_modifications, k, log, run>>

Init ==
    /\ pc = "data_to_json"
    /\ raised = ""
    /\ pending = FALSE
    /\ data \in Datasets
    /\ data0 = data
    /\ cursor = <<1, 1>>
    /\ weather_conditions = <<>>
    /\ emoji_con = <<>>
    /\ missing_codes = <<>>
    /\ forecast_file = Absent
    /\ conditions_file = Absent
    /\ icon_files = <<>>
    /\ idata = <<>>
    /\ all_codes = <<>>
    /\ full_modifications = <<>>
    /\ k = 1
    /\ log = <<>>
    /\ run = 1

WriteEvent(name, site, outcome) ==
    [op |-> "write", arg |-> name, site |-> site, ok |-> outcome = "ok"]
FetchEvent(code, ok) ==
    [op |-> "fetch", arg |-> code, site |-> "parse_icon_url", ok |-> ok]
ReadEvent(name, ok) ==
    [op |-> "read", arg |-> name, site |-> "modify_icons", ok |-> ok]
ScrapeEvent(ok) ==
    [op |-> "scrape", arg |-> "weather-conditions", site |-> "scrape_data", ok |-> ok]
IconFileEvent(code) ==
    [op |-> "icon_file", arg |-> code, site |-> "modify_icons", ok |-> TRUE]

\* ------------------------------------- data_to_json, lines 325-330
\* The first dump of the forecast document; an OSError inside dump_json
\* leaves it as SystemExit (lines 213-215).
DataToJson ==
    /\ pc = "data_to_json"
    /\ \E outcome \in WriteOutcomes :
        /\ forecast_file' = DumpJson(forecast_file, data, outcome)
        /\ log' = Append(log, WriteEvent("Forecast_data.json", "data_to_json", outcome))
        /\ IF outcome = "ok"
           THEN pc' = "scrape" /\ raised' = raised
           ELSE pc' = "exit" /\ raised' = "SystemExit"
    /\ UNCHANGED <<run, pending, data, data0, cursor, weather_conditions, emoji_con,
                   missing_codes, conditions_file, icon_files, idata,
                   all_codes, full_modifications, k>>

\* A plausible slip: emoji_con not emptied at the start of modify_condition.
ScrapeDataKeepIndex ==
    /\ pc = "scrape"
    /\ \E page \in Pages : weather_conditions' = ScrapeRows(page)
    /\ cursor' = <<1, 1>>
    /\ pc' = "resolve"
    /\ log' = Append(log, ScrapeEvent(TRUE))
    /\ UNCHANGED <<run, raised, pending, data, data0, emoji_con, missing_codes,
                   forecast_file, conditions_file, icon_files, idata,
                   all_codes, full_modifications, k>>

\* ---------------------------------- modify_condition, lines 427-429
\* scrape_data answers with the table's rows.
ScrapeData ==
    /\ pc = "scrape"
    /\ \E page \in Pages : weather_conditions' = ScrapeRows(page)
    /\ emoji_con' = <<>>
    /\ cursor' = <<1, 1>>
    /\ pc' = "resolve"
    /\ log' = Append(log, ScrapeEvent(TRUE))
    /\ UNCHANGED <<run, raised, pending, data, data0, missing_codes, forecast_file,
                   conditions_file, icon_files, idata, all_codes,
                   full_modifications, k>>

\* A plausible slip: the failed request answered with an empty list, and
\* modify_condition going on.
ScrapeFailsEmpty ==
    /\ pc = "scrape"
    /\ weather_conditions' = <<>>
    /\ emoji_con' = <<>>
    /\ cursor' = <<1, 1>>
    /\ pc' = "resolve"
    /\ log' = Append(log, ScrapeEvent(FALSE))
    /\ UNCHANGED <<run, raised, pending, data, data0, missing_codes, forecast_file,
                   conditions_file, icon_files, idata, all_codes,
                   full_modifications, k>>

\* scrape_data, lines 407-409: the request fails, SystemExit.
ScrapeRequestFails ==
    /\ pc = "scrape"
    /\ pc' = "exit"
    /\ raised' = "SystemExit"
    /\ log' = Append(log, ScrapeEvent(FALSE))
    /\ UNCHANGED <<run, pending, data, data0, cursor, weather_conditions, emoji_con,
                   missing_codes, forecast_file, conditions_file, icon_files,
                   idata, all_codes, full_modifications, k>>

\* scrape_data, lines 396-399: the page has no table of class "table";
\* soup.find gives None and None.find_all raises AttributeError, which
\* nothing catches.
ScrapeNoTable ==
    /\ pc = "scrape"
    /\ pc' = "error"
    /\ raised' = "AttributeError"
    /\ log' = Append(log, ScrapeEvent(FALSE))
    /\ UNCHANGED <<run, pending, data, data0, cursor, weather_conditions, emoji_con,
                   missing_codes, forecast_file, conditions_file, icon_files,
                   idata, all_codes, full_modifications, k>>

\* ---------------------------------- modify_condition, lines 430-438
InData(c) == c[1] <= Len(data)
NextCursor(c) ==
    IF c[2] < Len(data[c[1]].day.hourly_data) THEN <<c[1], c[2] + 1>>
    ELSE <<c[1] + 1, 1>>

\* A plausible slip: the candidates handed over in sorted order instead of
\* taxonomy order.
BestMatchSorted(condition, wc) ==
    LET best_match_ == ExtractOne(Lower(condition),
                                  SortSeq(Descriptions(wc), StrLess))
    IN IF best_match_.found THEN best_match_.choice ELSE <<>>

\* lines 434-435
BestMatch(condition, wc) ==
    LET best_match_ == ExtractOne(Lower(condition), Descriptions(wc))
    IN IF best_match_.found THEN best_match_.choice ELSE <<>>

\* A plausible slip: the last entry of that description instead of the first.
PickEmojiLast(unpacked, best_match) ==
    LET m == MatchingEntries(unpacked, best_match) IN m[Len(m)][1]

\* line 437, [0][0] of the filtered entries (which must not be empty)
PickEmoji(unpacked, best_match) == MatchingEntries(unpacked, best_match)[1][1]

\* One pass of the inner loop, on the record under the cursor.
ResolveRecord ==
    /\ pc = "resolve"
    /\ InData(cursor)
    /\ LET d == cursor[1]
           h == cursor[2]
           best_match == BestMatch(data[d].day.hourly_data[h].conditions,
                                   weather_conditions)
           unpacked == Unpacked(weather_conditions)
       IN IF MatchingEntries(unpacked, best_match) = <<>>
          THEN \* line 436 has run, line 437 raises IndexError
               /\ data' = [data EXCEPT ![d].day.hourly_data[h].conditions = best_match]
               /\ pc' = "error"
               /\ raised' = "IndexError"
               /\ UNCHANGED <<emoji_con, cursor>>
          ELSE LET emoji == PickEmoji(unpacked, best_match)
               IN /\ data' = [data EXCEPT
                        ![d].day.hourly_data[h] =
                            [conditions |-> best_match, emoji |-> EmojiStr(emoji)]]
                  /\ emoji_con' = DictSet(emoji_con, best_match, emoji)
                  /\ cursor' = NextCursor(cursor)
                  /\ UNCHANGED <<pc, raised>>
    /\ UNCHANGED <<run, pending, data0, weather_conditions, missing_codes,
                   forecast_file, conditions_file, icon_files, idata,
                   all_codes, full_modifications, k, log>>

\* A plausible slip: emoji_con handed to modify_icons as it was built.
FinishConditionUnsorted ==
    /\ pc = "resolve"
    /\ ~InData(cursor)
    /\ missing_codes' = MissingCodes(Unpacked(weather_conditions), emoji_con, <<>>)
    /\ \E outcome \in WriteOutcomes :
        /\ forecast_file' = DumpJson(forecast_file, data, outcome)
        /\ log' = Append(log, WriteEvent("Forecast_data.json", "modify_condition", outcome))
        /\ pending' = (outcome # "ok")
    /\ pc' = "modify_icons"
    /\ UNCHANGED <<run, raised, data, data0, cursor, weather_conditions, emoji_con,
                   conditions_file, icon_files, idata, all_codes,
                   full_modifications, k>>

\* ---------------------------------- modify_condition, lines 439-447
\* missing_codes, the second dump of the forecast document, and the finally
\* clause: emoji_con sorted and modify_icons called, whether or not the dump
\* raised. A SystemExit of the dump stays in flight until modify_icons ends.
FinishCondition ==
    /\ pc = "resolve"
    /\ ~InData(cursor)
    /\ missing_codes' = MissingCodes(Unpacked(weather_conditions), emoji_con, <<>>)
    /\ \E outcome \in WriteOutcomes :
        /\ forecast_file' = DumpJson(forecast_file, data, outcome)
        /\ log' = Append(log, WriteEvent("Forecast_data.json", "modify_condition", outcome))
        /\ pending' = (outcome # "ok")
    /\ emoji_con' = SortedItems(emoji_con)
    /\ pc' = "modify_icons"
    /\ UNCHANGED <<run, raised, data, data0, cursor, weather_conditions,
                   conditions_file, icon_files, idata, all_codes,
                   full_modifications, k>>


\* --------------------------------------- modify_icons, lines 465-468
\* The forecast document is read back from disk; a truncated or missing
\* document makes read_text / json.loads raise, which nothing catches.
ModifyIconsLoad ==
    /\ pc = "modify_icons"
    /\ IF forecast_file.state = "json"
       THEN /\ idata' = JsonLoads(forecast_file)
            /\ all_codes' = AllCodes(emoji_con, missing_codes)
            /\ k' = 1
            /\ full_modifications' = <<>>
            /\ pc' = IF emoji_con # <<>> THEN "annotate"
                     ELSE IF AllCodes(emoji_con, missing_codes) # <<>> THEN "assets"
                     ELSE "dump_forecast"
            /\ log' = Append(log, ReadEvent("Forecast_data.json", TRUE))
            /\ UNCHANGED raised
       ELSE /\ pc' = "error"
            /\ raised' = IF forecast_file.state = "corrupt" THEN "JSONDecodeError"
                         ELSE "FileNotFoundError"
            /\ log' = Append(log, ReadEvent("Forecast_data.json", FALSE))
            /\ UNCHANGED <<idata, all_codes, k, full_modifications>>
    /\ UNCHANGED <<run, pending, data, data0, cursor, weather_conditions, emoji_con,
                   missing_codes, forecast_file, conditions_file, icon_files>>

\* parse_icon_url, lines 456-458: the content of a successful response.
ParseIconUrl(icon_code) == ServerContent(icon_code)

\* A plausible slip: every record of a known condition takes the payload.
AnnotateAny(dat, ec, icon_code, png_bytes) ==
    [d \in 1..Len(dat) |->
        [day |-> [hourly_data |->
            [h \in 1..Len(dat[d].day.hourly_data) |->
                LET conditions == dat[d].day.hourly_data[h]
                IN IF DictHas(ec, conditions.conditions)
                   THEN [conditions EXCEPT !.emoji = EmojiDict(
                            [Description |-> conditions.conditions,
                             IconCode |-> icon_code,
                             DecodedBytes |-> B64Encode(png_bytes)])]
                   ELSE conditions]]]]

\* lines 472-481: the records whose condition maps to icon_code get the
\* payload {Description, Icon Code, Decoded Bytes}.
Annotate(dat, ec, icon_code, png_bytes) ==
    [d \in 1..Len(dat) |->
        [day |-> [hourly_data |->
            [h \in 1..Len(dat[d].day.hourly_data) |->
                LET conditions == dat[d].day.hourly_data[h]
                IN IF DictHas(ec, conditions.conditions)
                      /\ DictGet(ec, conditions.conditions) = icon_code
                   THEN [conditions EXCEPT !.emoji = EmojiDict(
                            [Description |-> conditions.conditions,
                             IconCode |-> icon_code,
                             DecodedBytes |-> B64Encode(png_bytes)])]
                   ELSE conditions]]]]

\* A plausible slip: a failed request skipped, the loop going on.
AnnotateFetchSkip ==
    /\ pc = "annotate"
    /\ k <= Len(emoji_con)
    /\ LET icon_code == emoji_con[k][2]
       IN \E ok \in BOOLEAN :
            /\ log' = Append(log, FetchEvent(icon_code, ok))
            /\ idata' = IF ok THEN Annotate(idata, emoji_con, icon_code,
                                            ParseIconUrl(icon_code))
                        ELSE idata
            /\ k' = IF k < Len(emoji_con) THEN k + 1 ELSE 1
            /\ pc' = IF k < Len(emoji_con) THEN "annotate"
                     ELSE IF all_codes # <<>> THEN "assets"
                     ELSE "dump_forecast"
    /\ UNCHANGED <<run, raised, pending, data, data0, cursor, weather_conditions,
                   emoji_con, missing_codes, forecast_file, conditions_file,
                   icon_files, all_codes, full_modifications>>

\* lines 470-481: one pass of the loop over emoji_con.items(); a failed
\* request leaves parse_icon_url as SystemExit (lines 459-461).
AnnotateFetch ==
    /\ pc = "annotate"
    /\ k <= Len(emoji_con)
    /\ LET icon_code == emoji_con[k][2]
       IN \E ok \in BOOLEAN :
            /\ log' = Append(log, FetchEvent(icon_code, ok))
            /\ IF ok
               THEN /\ idata' = Annotate(idata, emoji_con, icon_code,
                                         ParseIconUrl(icon_code))
                    /\ k' = IF k < Len(emoji_con) THEN k + 1 ELSE 1
                    /\ pc' = IF k < Len(emoji_con) THEN "annotate"
                             ELSE IF all_codes # <<>> THEN "assets"
                             ELSE "dump_forecast"
                    /\ UNCHANGED raised
               ELSE /\ pc' = "exit"
                    /\ raised' = "SystemExit"
                    /\ UNCHANGED <<idata, k>>
    /\ UNCHANGED <<run, pending, data, data0, cursor, weather_conditions, emoji_con,
                   missing_codes, forecast_file, conditions_file, icon_files,
                   all_codes, full_modifications>>

DayFile(code) == <<code, "day">>
NightFile(code) == <<code, "night">>

\* lines 491-494
IconPayload(condition, code, day_bytes, night_bytes) ==
    [Description |-> condition,
     IconCode |-> code,
     DayDecodedBytes |-> B64Encode(day_bytes),
     NightDecodedBytes |-> B64Encode(night_bytes)]

\* lines 484-494: one pass of the loop over all_codes.items(): both icon
\* files opened for writing (and so emptied), the day and the night bytes
\* fetched, both files written, the summary entry stored.
AssetsFetch ==
    /\ pc = "assets"
    /\ k <= Len(all_codes)
    /\ LET condition == all_codes[k][1]
           code == all_codes[k][2]
           night == NightCode(code)
           opened == DictSet(DictSet(icon_files, DayFile(code), <<>>),
                             NightFile(code), <<>>)
           log1 == Append(log, IconFileEvent(code))
       IN \E outcome \in {"ok", "day_failed", "night_failed"} :
            CASE outcome = "day_failed" ->
                    /\ icon_files' = opened
                    /\ log' = Append(log1, FetchEvent(code, FALSE))
                    /\ pc' = "exit"
                    /\ raised' = "SystemExit"
                    /\ UNCHANGED <<full_modifications, k>>
              [] outcome = "night_failed" ->
                    /\ icon_files' = opened
                    /\ log' = Append(Append(log1, FetchEvent(code, TRUE)),
                                     FetchEvent(night, FALSE))
                    /\ pc' = "exit"
                    /\ raised' = "SystemExit"
                    /\ UNCHANGED <<full_modifications, k>>
              [] outcome = "ok" ->
                    /\ icon_files' =
                         DictSet(DictSet(opened, DayFile(code), ParseIconUrl(code)),
                                 NightFile(code), ParseIconUrl(night))
                    /\ log' = Append(Append(log1, FetchEvent(code, TRUE)),
                                     FetchEvent(night, TRUE))
                    /\ full_modifications' =
                         DictSet(full_modifications, condition,
                                 IconPayload(condition, code, ParseIconUrl(code),
                                             ParseIconUrl(night)))
                    /\ k' = IF k < Len(all_codes) THEN k + 1 ELSE 1
                    /\ pc' = IF k < Len(all_codes) THEN "assets" ELSE "dump_forecast"
                    /\ UNCHANGED raised
    /\ UNCHANGED <<run, pending, data, data0, cursor, weather_conditions, emoji_con,
                   missing_codes, forecast_file, conditions_file, idata,
                   all_codes>>

\* line 496: the third dump of the forecast document.
DumpForecast ==
    /\ pc = "dump_forecast"
    /\ \E outcome \in WriteOutcomes :
        /\ forecast_file' = DumpJson(forecast_file, idata, outcome)
        /\ log' = Append(log, WriteEvent("Forecast_data.json", "modify_icons", outcome))
        /\ IF outcome = "ok"
           THEN pc' = "dump_conditions" /\ raised' = raised
           ELSE pc' = "exit" /\ raised' = "SystemExit"
    /\ UNCHANGED <<run, pending, data, data0, cursor, weather_conditions, emoji_con,
                   missing_codes, conditions_file, icon_files, idata,
                   all_codes, full_modifications, k>>

\* lines 497-501 and the end of the finally clause of line 447: the summary
\* document dumped; modify_icons returns, and a SystemExit still in flight
\* from line 441 now leaves modify_condition.
DumpConditions ==
    /\ pc = "dump_conditions"
    /\ \E outcome \in WriteOutcomes :
        /\ conditions_file' = DumpJson(conditions_file, full_modifications, outcome)
        /\ log' = Append(log, WriteEvent("weather_conditions.json", "modify_icons", outcome))
        /\ IF outcome = "ok" /\ ~pending
           THEN pc' = "done" /\ raised' = raised
           ELSE pc' = "exit" /\ raised' = "SystemExit"
    /\ UNCHANGED <<run, pending, data, data0, cursor, weather_conditions, emoji_con,
                   missing_codes, forecast_file, icon_files, idata,
                   all_codes, full_modifications, k>>

Next ==
    \/ DataToJson
    \/ ScrapeData
    \/ ScrapeRequestFails
    \/ ScrapeNoTable
    \/ ResolveRecord
    \/ FinishCondition
    \/ ModifyIconsLoad
    \/ AnnotateFetch
    \/ AssetsFetch
    \/ DumpForecast
    \/ DumpConditions

Spec == Init /\ [][Next]_vars

\* ------------------------------------------------ main, lines 521-536
\* KeyboardInterrupt during the first get_forecast (or the get_history after
\* it) is caught at line 529 and get_forecast is called once more, in the
\* same process: a new dataset, the globals emoji_con and missing_codes and
\* the files on disk as the first run left them. SystemExit and any other
\* exception of the first run end the process instead.
Retry ==
    /\ run = 1
    /\ pc \notin {"exit", "error"}
    /\ run' = 2
    /\ pc' = "data_to_json"
    /\ data' \in {d \in Datasets : Len(d) <= MaxRunDays}
    /\ data0' = data'
    /\ raised' = ""
    /\ pending' = FALSE
    /\ cursor' = <<1, 1>>
    /\ weather_conditions' = <<>>
    /\ idata' = <<>>
    /\ all_codes' = <<>>
    /\ full_modifications' = <<>>
    /\ k' = 1
    /\ log' = <<>>
    /\ UNCHANGED <<emoji_con, missing_codes, forecast_file, conditions_file,
                   icon_files>>

NextRuns == Next \/ Retry

InitRuns == Init /\ Len(data) <= MaxRunDays

SpecRuns == InitRuns /\ [][NextRuns]_vars


\* ----------------------------------------------------- reading the log
Events(op) == {i \in 1..Len(log) : log[i].op = op}
FetchCount(code) ==
    Cardinality({i \in Events("fetch") : log[i].arg = code})
FetchFailed == \E i \in Events("fetch") : ~log[i].ok
WriteFailed == \E i \in Events("write") : ~log[i].ok
Scraped == \E i \in Events("scrape") : log[i].ok
ScrapeFailed == \E i \in Events("scrape") : ~log[i].ok
\* modify_condition has run to line 439 and past it
Resolved ==
    pc \in {"modify_icons", "annotate", "assets", "dump_forecast",
            "dump_conditions", "done"}
TaxonomyCodes == {weather_conditions[i].icon_code : i \in 1..Len(weather_conditions)}
\* the hourly records of a dataset, as <<day, hour>> positions
Positions(dat) ==
    {<<d, h>> : d \in 1..Len(dat), h \in 1..HoursPerDay}
RecordAt(dat, p) == dat[p[1]].day.hourly_data[p[2]]

\* ------------------------------------------------------------ claims
\* C1 (as stated): in a run in which every fetch succeeds, parse_icon_url is
\* invoked exactly once with each unique day code of emoji_con and
\* missing_codes and exactly once with its night code: N codes, N day
\* fetches and N night fetches.
C1_EachCodeFetchedOnce ==
    pc = "done" =>
        LET codes == DictValues(emoji_con) \cup DictValues(missing_codes)
        IN /\ \A c \in codes : FetchCount(c) = 1 /\ FetchCount(NightCode(c)) = 1
           /\ Cardinality(Events("fetch")) = 2 * Cardinality(codes)

\* C1: a finished run with a resolved code, where the claim's case arises.
C1_Witness == pc = "done" /\ emoji_con # <<>> /\ missing_codes # <<>>

C3_EmptyTaxonomyCompletes ==
    (Scraped /\ weather_conditions = <<>> /\ data0 # <<>>) =>
        /\ raised # "IndexError"
        /\ \A p \in Positions(data) :
              RecordAt(data, p).conditions = RecordAt(data0, p).conditions
        /\ Resolved => emoji_con = <<>> /\ missing_codes = <<>>

\* C4 (as stated): once a dump_json call has failed, no further step of the
\* pipeline runs: no fetch, no icon file, no read or write of a document.
C4_WriteFailureAborts ==
    [][WriteFailed =>
        UNCHANGED <<log, forecast_file, conditions_file, icon_files, idata>>]_vars

\* C5 (as stated): after modify_condition has processed all records,
\* missing_codes holds exactly the taxonomy entries whose icon code is no
\* value of emoji_con; the codes of the two are disjoint and together are
\* all the taxonomy's icon codes.
C5_MissingIsComplement ==
    (Resolved /\ data0 # <<>>) =>
        /\ \A i \in 1..Len(weather_conditions) :
              weather_conditions[i].icon_code \notin DictValues(emoji_con) =>
                 /\ DictHas(missing_codes, weather_conditions[i].description)
                 /\ DictGet(missing_codes, weather_conditions[i].description)
                        = weather_conditions[i].icon_code
        /\ DictValues(missing_codes) \cap DictValues(emoji_con) = {}
        /\ DictValues(missing_codes) \cup DictValues(emoji_con) = TaxonomyCodes


\* C6 (as stated): after a successful run the summary document has, for
\* every taxonomy entry, the key description, and under it that entry's
\* Description and Icon Code and the encoded day and night bytes fetched
\* for the code, also when two entries share a description.
C6_SummaryCoversTaxonomy ==
    (pc = "done" /\ data0 # <<>>) =>
        /\ conditions_file.state = "json"
        /\ \A i \in 1..Len(weather_conditions) :
              LET e == weather_conditions[i]
                  doc == JsonLoads(conditions_file)
              IN /\ DictHas(doc, e.description)
                 /\ DictGet(doc, e.description) =
                      [Description |-> e.description,
                       IconCode |-> e.icon_code,
                       DayDecodedBytes |-> B64Encode(ServerContent(e.icon_code)),
                       NightDecodedBytes |->
                           B64Encode(ServerContent(NightCode(e.icon_code)))]

\* C7: after a successful run with a non-empty taxonomy, every hourly record
\* of the persisted forecast document whose condition is a key of emoji_con
\* has the emoji {Description: its condition, Icon Code: emoji_con[condition],
\* Decoded Bytes: the encoded day bytes fetched for that code}; any other
\* record has an empty emoji.
C7_ForecastPayloads ==
    (pc = "done" /\ weather_conditions # <<>>) =>
        /\ forecast_file.state = "json"
        /\ LET doc == JsonLoads(forecast_file)
           IN /\ Positions(doc) = Positions(data0)
              /\ \A p \in Positions(doc) :
                    LET r == RecordAt(doc, p)
                    IN IF DictHas(emoji_con, r.conditions)
                       THEN /\ r.emoji.type = "dict"
                            /\ r.emoji.value =
                                 [Description |-> r.conditions,
                                  IconCode |-> DictGet(emoji_con, r.conditions),
                                  DecodedBytes |-> B64Encode(ServerContent(
                                      DictGet(emoji_con, r.conditions)))]
                       ELSE r.emoji = EmojiStr(<<>>)

\* C7: a finished run whose document has two records of different codes, one
\* of them code 01d with the base64 text of its bytes, iVAwMWQ=.
C7_Witness ==
    /\ pc = "done"
    /\ forecast_file.state = "json"
    /\ \E p, q \in Positions(JsonLoads(forecast_file)) :
          LET a == RecordAt(JsonLoads(forecast_file), p).emoji
              b == RecordAt(JsonLoads(forecast_file), q).emoji
          IN /\ a.type = "dict" /\ b.type = "dict"
             /\ a.value.IconCode = <<"0","1","d">>
             /\ a.value.DecodedBytes = <<"i","V","A","w","M","W","Q","=">>
             /\ b.value.IconCode # a.value.IconCode

\* C8: every key d of emoji_con maps to the icon code of the first taxonomy
\* entry, in taxonomy order, whose description is d; with a non-empty
\* taxonomy modify_condition raises no IndexError, entries that share a
\* description included.
C8_IndexFirstEntry ==
    /\ \A i \in 1..Len(emoji_con) :
          LET d == emoji_con[i][1]
              same == {j \in 1..Len(weather_conditions) :
                          weather_conditions[j].description = d}
          IN /\ same # {}
             /\ emoji_con[i][2] =
                  weather_conditions[CHOOSE j \in same :
                                        \A m \in same : j <= m].icon_code
    /\ weather_conditions # <<>> => raised # "IndexError"

\* C8: all records resolved to a description that two taxonomy entries of
\* different icon codes share.
C8_Witness ==
    /\ Resolved
    /\ \E i \in 1..Len(emoji_con) :
          \E a, b \in 1..Len(weather_conditions) :
             /\ a # b
             /\ weather_conditions[a].description = emoji_con[i][1]
             /\ weather_conditions[b].description = emoji_con[i][1]
             /\ weather_conditions[a].icon_code # weather_conditions[b].icon_code

\* the records modify_condition has passed
Passed(p) ==
    /\ Scraped
    /\ p[1] < cursor[1] \/ (p[1] = cursor[1] /\ p[2] < cursor[2])

\* C9: with a non-empty taxonomy, each pass of modify_condition's loop sets
\* the record's condition to a taxonomy description whose fuzz.ratio score
\* against the lower-cased raw phrase is the maximum over all candidates, and
\* which is the first candidate in taxonomy order with that score, however
\* low the score; a record passed earlier with the same raw phrase has the
\* same condition.
C9_BestMatchFirstMax ==
    [][(pc = "resolve" /\ InData(cursor) /\ weather_conditions # <<>>) =>
        LET query == Lower(RecordAt(data, cursor).conditions)
            got == RecordAt(data', cursor).conditions
            cand == Descriptions(weather_conditions)
            score == [m \in 1..Len(cand) |-> Ratio(query, cand[m])]
        IN /\ cursor' = NextCursor(cursor)
           /\ \E j \in 1..Len(cand) :
                 /\ cand[j] = got
                 /\ \A m \in 1..Len(cand) : ScoreGeq(score[j], score[m])
                 /\ \A m \in 1..(j - 1) : ScoreGreater(score[j], score[m])
           /\ \A q \in Positions(data) :
                 (Passed(q) /\ RecordAt(data0, q).conditions
                                  = RecordAt(data0, cursor).conditions)
                 => RecordAt(data', q).conditions = got]_vars

\* C9: a passed record whose phrase scores 0 against two different
\* candidates, and took the first of them.
C9_Witness ==
    /\ Len(weather_conditions) >= 2
    /\ weather_conditions[1].description # weather_conditions[2].description
    /\ \E p \in Positions(data) :
          /\ Passed(p)
          /\ RecordAt(data0, p).conditions = <<"d","r","y">>
          /\ RecordAt(data, p).conditions = weather_conditions[1].description
          /\ Ratio(Lower(RecordAt(data0, p).conditions),
                   weather_conditions[1].description)[1] = 0

\* C10: when the taxonomy cannot be obtained (the request fails, or the page
\* has no table) the run ends there with an exception and the scrape is made
\* once: no record's condition or emoji is changed, and the failed scrape is
\* the last call made, so no icon is fetched and no document written after it.
C10_ScrapeFailureAborts ==
    ScrapeFailed =>
        /\ pc \in {"exit", "error"}
        /\ raised \in {"SystemExit", "AttributeError"}
        /\ data = data0
        /\ Cardinality(Events("scrape")) = 1
        /\ log[Len(log)].op = "scrape"
        /\ Events("fetch") = {}
        /\ forecast_file = JsonDump(data0)
        /\ conditions_file = Absent
        /\ icon_files = <<>>

\* C10: a failed scrape with records in the dataset.
C10_Witness == ScrapeFailed /\ data0 # <<>> /\ raised = "AttributeError"


\* the conditions of the records passed so far, in dataset order
PassedCount == (cursor[1] - 1) * HoursPerDay + (cursor[2] - 1)
PassedConditions ==
    [n \in 1..PassedCount |->
        RecordAt(data, <<((n - 1) \div HoursPerDay) + 1,
                         ((n - 1) % HoursPerDay) + 1>>).conditions]
\* a sequence without its repeats, each element where it first occurs
RECURSIVE FirstSeen(_, _)
FirstSeen(seq, acc) ==
    IF seq = <<>> THEN acc
    ELSE FirstSeen(Tail(seq),
                   IF \E i \in 1..Len(acc) : acc[i] = Head(seq) THEN acc
                   ELSE Append(acc, Head(seq)))
DictKeySeq(d) == [i \in 1..Len(d) |-> d[i][1]]
\* the fetches of the loop of lines 470-481: those made before the loop of
\* line 484 opens its first icon file
AnnotateFetches ==
    LET opened == Events("icon_file")
    IN {i \in Events("fetch") : \A j \in opened : i < j}

\* C11: while modify_condition walks the dataset, emoji_con holds its keys in
\* the order in which the descriptions were first resolved; when modify_icons
\* runs, emoji_con is in strictly ascending order of description, and the
\* n-th fetch of the annotation loop is for the code of its n-th key, so the
\* fetches follow ascending description whatever the order of the records.
C11_FetchesFollowDescriptionOrder ==
    /\ (pc = "resolve" /\ Scraped) =>
          DictKeySeq(emoji_con) = FirstSeen(PassedConditions, <<>>)
    /\ (Resolved \/ FetchFailed) =>
          /\ \A i \in 1..(Len(emoji_con) - 1) :
                StrLess(emoji_con[i][1], emoji_con[i + 1][1])
          /\ LET fetched == AnnotateFetches
             IN /\ Cardinality(fetched) <= Len(emoji_con)
                /\ \A i \in fetched :
                      LET n == Cardinality({j \in fetched : j <= i})
                      IN log[i].arg = emoji_con[n][2]

\* C11: both annotation fetches made, for two descriptions that were first
\* resolved in descending order (the first record's description is the
\* greater one).
C11_Witness ==
    /\ Resolved
    /\ Cardinality(AnnotateFetches) = 2
    /\ Len(data) = 2
    /\ StrLess(RecordAt(data, <<2, 1>>).conditions,
               RecordAt(data, <<1, 1>>).conditions)


\* modify_icons is reading emoji_con and missing_codes (lines 468-475)
ReadsIndices == pc \in {"modify_icons", "annotate", "assets"}
\* every entry of the two globals comes from this run's taxonomy, every
\* emoji_con key is the condition of a record of this run's dataset, and no
\* missing code is a value of emoji_con
FreshIndices ==
    /\ \A i \in 1..Len(emoji_con) :
          /\ \E j \in 1..Len(weather_conditions) :
                weather_conditions[j] = [icon_code |-> emoji_con[i][2],
                                         description |-> emoji_con[i][1]]
          /\ \E p \in Positions(data) :
                RecordAt(data, p).conditions = emoji_con[i][1]
    /\ \A i \in 1..Len(missing_codes) :
          /\ \E j \in 1..Len(weather_conditions) :
                weather_conditions[j] = [icon_code |-> missing_codes[i][2],
                                         description |-> missing_codes[i][1]]
          /\ missing_codes[i][2] \notin DictValues(emoji_con)

\* C12: in either run of the process, whenever modify_icons reads emoji_con
\* and missing_codes they hold only entries of the current run's dataset and
\* taxonomy; and from the point where modify_condition has emptied emoji_con
\* (line 429) to the end of the run, no step removes a key from it.
C12_IndicesFreshAndGrowing ==
    [][/\ ReadsIndices' => FreshIndices'
       /\ (run' = run /\ pc \notin {"data_to_json", "scrape"}) =>
             DictKeys(emoji_con) \subseteq DictKeys(emoji_con')]_vars

\* C12: the retry is in modify_icons with a resolved condition, while the
\* summary document of the first run still shows a description that the
\* retry's emoji_con and missing_codes do not hold.
C12_Witness ==
    /\ run = 2
    /\ pc = "annotate"
    /\ emoji_con # <<>>
    /\ conditions_file.state = "json"
    /\ \E d \in DictKeys(JsonLoads(conditions_file)) :
          d \notin DictKeys(emoji_con) \cup DictKeys(missing_codes)

=============================================================================
